---- MODULE Spec2Model ----
(***************************************************************************)
(* Model of the flood-complaint aggregation pipeline of                    *)
(* src/scripts/data_processing.py (spatial_join_with_census,               *)
(* aggregate_by_census_tract) and of the consumers of its output in        *)
(* src/scripts/visualization.py and src/scripts/socioeconomic_analysis.py. *)
(*                                                                         *)
(* Coordinates are integers (tenths of the spec's units): the unit square  *)
(* [0,1]x[0,1] is the square of centre (5,5) and half-width 5.             *)
(***************************************************************************)
EXTENDS Integers, Sequences, FiniteSets, TLC

VARIABLES
    complaints_df,    \* the Events handed to the joiner (flood_complaints_df)
    census_gdf,       \* the Regions
    joined_gdf,       \* result of spatial_join_with_census
    unmatched,        \* len(unmatched) as printed by the joiner
    aggregated_gdf,   \* result of aggregate_by_census_tract
    files,            \* the files under PROCESSED_DATA_DIR
    grid,             \* the rate pixel map drawn by visualize_data
    regression_y,     \* the target vector fitted by run_regression_models
    global_stats,     \* global_stats of analyze_spatial_patterns
    pc,               \* position in the script
    run,              \* number of the current run of the script
    first_aggregated, \* aggregated_gdf returned by the first run
    geometries,       \* the polygons create_sample_census_data has built so far
    tract_ids,        \* the GEOIDs it has drawn so far
    statistics,       \* the socioeconomic columns it has drawn so far, by row
    tracts,           \* the GeoDataFrame it returns (<<>> until built)
    raw,              \* the two cache files of RAW_DATA_DIR: content and times written
    prep,             \* the call of download_and_prepare_data by the script
    skipped,          \* the runs that started from the processed files
    main,             \* run_analysis.main: its arguments, position and log
    flt,              \* filter_flood_complaints: its input, its results and its file
    point_map,        \* a point-map builder: its arguments and the points it placed
    pixel,            \* create_simplified_pixel_map: its loop over the Regions
    vis               \* visualize_data: the caller's Events table and its position

\* The state of the processing script and of the consumers of its output.
pipeline_vars == <<complaints_df, census_gdf, joined_gdf, unmatched, aggregated_gdf,
                   files, grid, regression_y, global_stats, pc, run, first_aggregated>>

\* The state of the steps that come before the script's join.
\* The state of the steps that are modelled on their own.
step_vars == <<main, flt, point_map, pixel, vis>>

other_vars == <<geometries, tract_ids, statistics, tracts, raw, prep, skipped, step_vars>>

vars == <<pipeline_vars, other_vars>>

----------------------------------------------------------------------------
(* Bounds of the model *)

MaxEvents == 3
MaxRegions == 2
MaxRuns == 2
Resolution == 3
MaxPixelRegions == 3

(* Sample locations of Events: (0.2,0.2), (0.5,0.5) and (2.0,2.0).          *)
SamplePoints == { <<2, 2>>, <<5, 5>>, <<20, 20>> }

(* Sample boundaries: squares [clon - size, clon + size] x [clat - size,   *)
(* clat + size] as the polygon generator builds them.  The second overlaps *)
(* the first and the third, and has the point (0.2,0.2) on its boundary.   *)
SampleSquares == { [clon |-> 5,  clat |-> 5,  size |-> 5],
                   [clon |-> 10, clat |-> 10, size |-> 8],
                   [clon |-> 20, clat |-> 20, size |-> 3] }

Populations == {0, 2000}

----------------------------------------------------------------------------
(* Values *)

\* The missing value (NaN) of an integer-coded column.
NA == 0

NaN == [kind |-> "nan", num |-> 0, den |-> 1]
Inf == [kind |-> "inf", num |-> 1, den |-> 0]

RECURSIVE GCD(_, _)
GCD(a, b) == IF b = 0 THEN a ELSE GCD(b, a % b)

\* The finite number n / d (d > 0, n >= 0), in lowest terms.
Num(n, d) == LET g == GCD(n, d) IN [kind |-> "num", num |-> n \div g, den |-> d \div g]

IsNaN(r) == r.kind = "nan"

\* a <= b on floats: every comparison with NaN is false.
LessEq(a, b) ==
    CASE a.kind = "nan" \/ b.kind = "nan" -> FALSE
      [] b.kind = "inf" -> TRUE
      [] a.kind = "inf" -> FALSE
      [] OTHER -> a.num * b.den <= b.num * a.den

Greater(a, b) ==
    CASE a.kind = "nan" \/ b.kind = "nan" -> FALSE
      [] a.kind = "inf" -> b.kind # "inf"
      [] b.kind = "inf" -> FALSE
      [] OTHER -> a.num * b.den > b.num * a.den

Add(a, b) ==
    CASE a.kind = "nan" \/ b.kind = "nan" -> NaN
      [] a.kind = "inf" \/ b.kind = "inf" -> Inf
      [] OTHER -> Num(a.num * b.den + b.num * a.den, a.den * b.den)

\* A population cell without a value (NaN in the population column).
MissingPopulation == -1

\* Float division of a count by a population (pandas: x / 0 is inf, 0 / 0 is NaN,
\* x / NaN is NaN).
Divide(count, population) ==
    CASE population = MissingPopulation -> NaN
      [] population = 0 -> IF count = 0 THEN NaN ELSE Inf
      [] OTHER -> Num(count, population)

Times(r, k) == IF r.kind = "num" THEN Num(r.num * k, r.den) ELSE r

\* Division of a float by a positive integer.
Over(r, k) == IF r.kind = "num" THEN Num(r.num, r.den * k) ELSE r

Min(S) == CHOOSE x \in S : \A y \in S : x <= y
Max(S) == CHOOSE x \in S : \A y \in S : x >= y

----------------------------------------------------------------------------
(* Inputs *)

EventRows == { [Longitude |-> p[1], Latitude |-> p[2]] : p \in SamplePoints }

EventTables == UNION { [1..n -> EventRows] : n \in 0..MaxEvents }

\* Regions carry the GEOID of their row: distinct ids, as create_sample_census_data
\* yields them under its fixed seed.
RegionTables ==
    UNION { { [i \in 1..n |-> [GEOID |-> i, population |-> pop[i], geometry |-> geo[i]]] :
                pop \in [1..n -> Populations], geo \in [1..n -> SampleSquares] } :
            n \in 1..MaxRegions }

\* produced: the run that last saved the aggregated file (0: none has).
NoFiles == [joined |-> <<>>, aggregated |-> <<>>, written |-> {}, produced |-> 0]

\* Nothing of the preparation steps is in progress.
NoCache == [content |-> "absent", writes |-> 0]

NoError == [cause |-> "none", path |-> FALSE]

NotCalled == [pc |-> "idle", complaints_df |-> "none", census_gdf |-> "none",
              error |-> NoError, exit |-> 0, run |-> 1]

\* run_analysis.main has not been started.
MainIdle == main = [pc |-> "idle", args |-> <<>>, log |-> <<>>, error |-> "none"]

\* filter_flood_complaints has not been called.
FilterIdle == flt = [df |-> <<>>, flood_complaints |-> <<>>, again |-> <<>>,
                     file |-> <<>>, calls |-> 0]

\* No point-map builder has been called.
PointMapIdle == point_map = [pc |-> "idle", builder |-> "none", df |-> <<>>,
                             max_points |-> [given |-> FALSE, n |-> 0], placed |-> <<>>]

\* create_simplified_pixel_map has not been called.
PixelIdle == pixel = [pc |-> "idle", gdf |-> <<>>, n |-> 0, grid |-> <<>>, written |-> {}]

\* visualize_data has not been called.
VisIdle == vis = [pc |-> "idle", complaints_df |-> <<>>, passed |-> <<>>]

\* Neither of the two is in progress.
PlotsIdle == PixelIdle /\ VisIdle

StepsIdle == MainIdle /\ FilterIdle /\ PointMapIdle /\ PlotsIdle

BeforeJoinIdle ==
    /\ geometries = <<>>
    /\ tract_ids = <<>>
    /\ statistics = <<>>
    /\ tracts = <<>>
    /\ raw = [events |-> NoCache, census |-> NoCache]
    /\ prep = NotCalled
    /\ skipped = {}

OthersIdle == BeforeJoinIdle /\ StepsIdle

Init ==
    /\ complaints_df \in EventTables
    /\ census_gdf \in RegionTables
    /\ joined_gdf = <<>>
    /\ unmatched = 0
    /\ aggregated_gdf = <<>>
    /\ files = NoFiles
    /\ grid = <<>>
    /\ regression_y = <<>>
    /\ global_stats = <<>>
    /\ pc = "start"
    /\ run = 1
    /\ first_aggregated = <<>>
    /\ OthersIdle

----------------------------------------------------------------------------
(* spatial_join_with_census *)

\* predicate="within": the point lies in the interior of the square.
Within(e, g) ==
    /\ g.clon - g.size < e.Longitude /\ e.Longitude < g.clon + g.size
    /\ g.clat - g.size < e.Latitude  /\ e.Latitude  < g.clat + g.size

Matches(e, right) == { j \in DOMAIN right : Within(e, right[j].geometry) }

RECURSIVE Ascending(_)
Ascending(S) == IF S = {} THEN <<>> ELSE <<Min(S)>> \o Ascending(S \ {Min(S)})

JoinedRow(left, right, i, j) ==
    [index |-> i, Longitude |-> left[i].Longitude, Latitude |-> left[i].Latitude,
     index_right |-> j, GEOID |-> IF j = NA THEN NA ELSE right[j].GEOID]

\* The rows of a left join for left row i: one per matching right row, or one
\* row with missing right columns when nothing matches.
LeftRows(left, right, i) ==
    LET m == Ascending(Matches(left[i], right))
    IN  IF m = <<>> THEN << JoinedRow(left, right, i, NA) >>
        ELSE [k \in DOMAIN m |-> JoinedRow(left, right, i, m[k])]

RECURSIVE SJoinUpTo(_, _, _)
SJoinUpTo(left, right, n) ==
    IF n = 0 THEN <<>> ELSE SJoinUpTo(left, right, n - 1) \o LeftRows(left, right, n)

\* A join that appends to the rows saved by an earlier run.
SJoinAppending(left, right) == files.joined \o SJoinUpTo(left, right, Len(left))

\* gpd.sjoin(complaints_gdf, census_gdf, how="left", predicate="within")
SJoin(left, right) == SJoinUpTo(left, right, Len(left))

IsNaGEOID(r) == r.GEOID = NA
HasGEOID(r) == r.GEOID # NA

\* notna() in place of isna(): the matched rows.
Matched(rows) == SelectSeq(rows, HasGEOID)

\* joined_gdf[joined_gdf['GEOID'].isna()]
Unmatched(rows) == SelectSeq(rows, IsNaGEOID)

\* No row dropped: the unmatched rows stay in the result.
KeepNaGEOID(rows) == rows

\* joined_gdf.dropna(subset=['GEOID'])
DropNaGEOID(rows) == SelectSeq(rows, HasGEOID)

\* A join that drops the unmatched rows from the caller's table as well.
SpatialJoinInPlace ==
    /\ UNCHANGED other_vars
    /\ pc = "start"
    /\ Len(complaints_df) > 0
    /\ LET sj == SJoin(complaints_df, census_gdf)
           InSomeRegion(e) == Matches(e, census_gdf) # {}
       IN  /\ unmatched' = Len(Unmatched(sj))
           /\ joined_gdf' = DropNaGEOID(sj)
           /\ complaints_df' = SelectSeq(complaints_df, InSomeRegion)
           /\ files' = [files EXCEPT !.joined = DropNaGEOID(sj),
                                     !.written = @ \cup {"joined"}]
           /\ pc' = "joined"
    /\ UNCHANGED <<census_gdf, aggregated_gdf, grid, regression_y,
                   global_stats, run, first_aggregated>>

\* The percentage printed with the unmatched count divides by len(complaints_df):
\* an empty Events table raises ZeroDivisionError before anything is saved.
SpatialJoin ==
    /\ UNCHANGED other_vars
    /\ pc = "start"
    /\ IF Len(complaints_df) = 0
       THEN /\ pc' = "failed"
            /\ UNCHANGED <<joined_gdf, unmatched, files>>
       ELSE LET sj == SJoin(complaints_df, census_gdf)
            IN  /\ unmatched' = Len(Unmatched(sj))
                /\ joined_gdf' = DropNaGEOID(sj)
                /\ files' = [files EXCEPT !.joined = DropNaGEOID(sj),
                                          !.written = @ \cup {"joined"}]
                /\ pc' = "joined"
    /\ UNCHANGED <<complaints_df, census_gdf, aggregated_gdf, grid, regression_y,
                   global_stats, run, first_aggregated>>

----------------------------------------------------------------------------
(* aggregate_by_census_tract *)

\* joined_df.groupby('GEOID').size(): one entry per GEOID present in joined_df.
GroupBySize(joined) ==
    [g \in { joined[k].GEOID : k \in DOMAIN joined } |->
        Cardinality({ k \in DOMAIN joined : joined[k].GEOID = g })]

\* how='inner': only the census rows whose GEOID has a count.
MergeInner(census, counts) ==
    LET HasCount(r) == r.GEOID \in DOMAIN counts
        kept == SelectSeq(census, HasCount)
    IN  [i \in DOMAIN kept |->
            [GEOID |-> kept[i].GEOID, population |-> kept[i].population,
             geometry |-> kept[i].geometry,
             complaint_count |-> Num(counts[kept[i].GEOID], 1)]]

\* A merge into the plain table: the boundary is reduced to its centre.
MergeLeftWithoutBoundary(census, counts) ==
    [i \in DOMAIN census |->
        [GEOID |-> census[i].GEOID, population |-> census[i].population,
         geometry |-> [census[i].geometry EXCEPT !.size = 0],
         complaint_count |-> IF census[i].GEOID \in DOMAIN counts
                             THEN Num(counts[census[i].GEOID], 1) ELSE NaN]]

\* census_gdf.merge(complaint_counts, on='GEOID', how='left'): every census row in
\* order, with the count of its GEOID, or NaN when complaint_counts has no such key.
MergeLeft(census, counts) ==
    [i \in DOMAIN census |->
        [GEOID |-> census[i].GEOID, population |-> census[i].population,
         geometry |-> census[i].geometry,
         complaint_count |-> IF census[i].GEOID \in DOMAIN counts
                             THEN Num(counts[census[i].GEOID], 1) ELSE NaN]]

\* Series.fillna(value)
FillNa(x, value) == IF IsNaN(x) THEN value ELSE x

\* The rate without the factor 1000.
ComplaintRatePerCapita(complaint_count, population) ==
    IF IsNaN(complaint_count) THEN NaN
    ELSE Divide(complaint_count.num, population)

\* The quotient inverted: population per complaint.
ComplaintRateInverted(complaint_count, population) ==
    IF IsNaN(complaint_count) THEN NaN
    ELSE Times(Divide(population, complaint_count.num), 1000)

\* The population column filled with 0 before the division.
ComplaintRateMissingAsZero(complaint_count, population) ==
    IF IsNaN(complaint_count) THEN NaN
    ELSE Times(Divide(complaint_count.num,
                      IF population = MissingPopulation THEN 0 ELSE population), 1000)

\* (complaint_count / population) * 1000
ComplaintRate(complaint_count, population) ==
    IF IsNaN(complaint_count) THEN NaN
    ELSE Times(Divide(complaint_count.num, population), 1000)

AggregateByCensusTract(joined_df, census) ==
    LET merged == MergeLeft(census, GroupBySize(joined_df))
    IN  [i \in DOMAIN merged |->
            LET c == FillNa(merged[i].complaint_count, Num(0, 1))
            IN  [GEOID |-> merged[i].GEOID, population |-> merged[i].population,
                 geometry |-> merged[i].geometry, complaint_count |-> c,
                 complaint_rate |-> ComplaintRate(c, merged[i].population)]]

\* A GeoJSON file holds no NaN and no Infinity: such a property is written as
\* missing and read back as NaN.
GeoJSONValue(r) == IF r.kind = "num" THEN r ELSE NaN

ToGeoJSON(gdf) ==
    [i \in DOMAIN gdf |-> [gdf[i] EXCEPT !.complaint_rate = GeoJSONValue(@)]]

\* aggregate_by_census_tract without its to_file.
AggregateWithoutSaving ==
    /\ UNCHANGED other_vars
    /\ pc = "joined"
    /\ aggregated_gdf' = AggregateByCensusTract(joined_gdf, census_gdf)
    /\ pc' = "aggregated"
    /\ UNCHANGED <<complaints_df, census_gdf, joined_gdf, unmatched, files, grid,
                   regression_y, global_stats, run, first_aggregated>>

Aggregate ==
    /\ UNCHANGED other_vars
    /\ pc = "joined"
    /\ aggregated_gdf' = AggregateByCensusTract(joined_gdf, census_gdf)
    /\ files' = [files EXCEPT !.aggregated = ToGeoJSON(aggregated_gdf'),
                              !.written = @ \cup {"aggregated"},
                              !.produced = run]
    /\ pc' = "aggregated"
    /\ UNCHANGED <<complaints_df, census_gdf, joined_gdf, unmatched, grid,
                   regression_y, global_stats, run, first_aggregated>>

----------------------------------------------------------------------------
(* visualization.create_simplified_pixel_map *)

Cells == (0..(Resolution - 1)) \X (0..(Resolution - 1))

\* geometry.bounds of a square
BoundsOf(g) == [minx |-> g.clon - g.size, miny |-> g.clat - g.size,
                maxx |-> g.clon + g.size, maxy |-> g.clat + g.size]

\* The geometry of a row that has none.
None == [none |-> TRUE]

\* gdf.total_bounds: the rows without geometry do not count.
TotalBounds(gdf) ==
    LET shapes == { gdf[i].geometry : i \in { j \in DOMAIN gdf : gdf[j].geometry # None } }
    IN  [minx |-> Min({ BoundsOf(g).minx : g \in shapes }),
         miny |-> Min({ BoundsOf(g).miny : g \in shapes }),
         maxx |-> Max({ BoundsOf(g).maxx : g \in shapes }),
         maxy |-> Max({ BoundsOf(g).maxy : g \in shapes })]

\* int((p - lo) / cell) with cell = (hi - lo) / resolution, for p >= lo
CellIndex(p, lo, hi, resolution) == ((p - lo) * resolution) \div (hi - lo)

\* The cells <<row, col>> the bounding box of g may intersect.
CellRange(g, tb, resolution) ==
    LET b == BoundsOf(g)
        min_col == Max({0, CellIndex(b.minx, tb.minx, tb.maxx, resolution)})
        max_col == Min({resolution - 1, CellIndex(b.maxx, tb.minx, tb.maxx, resolution)})
        min_row == Max({0, CellIndex(b.miny, tb.miny, tb.maxy, resolution)})
        max_row == Min({resolution - 1, CellIndex(b.maxy, tb.miny, tb.maxy, resolution)})
    IN  (min_row..max_row) \X (min_col..max_col)

\* Plain assignment of the Region's value instead of the maximum.
Assigned(a, b) == b

\* Python's max(a, b): b only when b > a, so a NaN b never replaces a.
PyMax(a, b) == IF Greater(b, a) THEN b ELSE a

\* np.zeros((resolution, resolution))
Zeros == [c \in Cells |-> Num(0, 1)]

\* The indices <<row, col>> one pass of the loop writes: none when the row has no
\* geometry (continue).
CellsWritten(row_data, tb, resolution) ==
    IF row_data.geometry = None THEN {} ELSE CellRange(row_data.geometry, tb, resolution)

\* One pass of the loop over gdf.iterrows().
PaintRegion(before, row_data, column, tb, resolution) ==
    LET range == CellsWritten(row_data, tb, resolution)
    IN  [c \in Cells |-> IF c \in range THEN PyMax(before[c], row_data[column])
                          ELSE before[c]]

RECURSIVE GridUpTo(_, _, _, _)
GridUpTo(gdf, column, resolution, n) ==
    IF n = 0 THEN Zeros
    ELSE PaintRegion(GridUpTo(gdf, column, resolution, n - 1), gdf[n], column,
                     TotalBounds(gdf), resolution)

PixelMap(gdf, column, resolution) == GridUpTo(gdf, column, resolution, Len(gdf))

\* visualize_data(flood_complaints_df, aggregated_gdf): the two pixel maps.
\* complaints_df holds the Events by their coordinates, which the plots only read;
\* the columns visualize_data writes to the table are modelled under VisSpec.
Visualize ==
    /\ UNCHANGED other_vars
    /\ pc = "aggregated"
    /\ grid' = [complaint_count |-> PixelMap(aggregated_gdf, "complaint_count", Resolution),
                complaint_rate  |-> PixelMap(aggregated_gdf, "complaint_rate", Resolution)]
    /\ pc' = "visualized"
    /\ UNCHANGED <<complaints_df, census_gdf, joined_gdf, unmatched, aggregated_gdf,
                   files, regression_y, global_stats, run, first_aggregated>>

----------------------------------------------------------------------------
(* socioeconomic_analysis *)

\* load_data(): the aggregated GeoJSON file, missing properties read as NaN.
LoadData == files.aggregated

Defined(y) == { i \in DOMAIN y : ~IsNaN(y[i]) }

RECURSIVE SumOver(_, _)
SumOver(y, S) ==
    IF S = {} THEN Num(0, 1)
    ELSE LET i == Min(S) IN Add(y[i], SumOver(y, S \ {i}))

\* Series.mean(): NaN entries are skipped; NaN when nothing is left.
Mean(y) ==
    IF Defined(y) = {} THEN NaN
    ELSE Over(SumOver(y, Defined(y)), Cardinality(Defined(y)))

\* Series.max() and Series.min(), NaN entries skipped.
SeriesMax(y) ==
    IF Defined(y) = {} THEN NaN
    ELSE y[CHOOSE i \in Defined(y) : \A j \in Defined(y) : LessEq(y[j], y[i])]

SeriesMin(y) ==
    IF Defined(y) = {} THEN NaN
    ELSE y[CHOOSE i \in Defined(y) : \A j \in Defined(y) : LessEq(y[i], y[j])]

Column(gdf, name) == [i \in DOMAIN gdf |-> gdf[i][name]]

\* run_regression_models: y = gdf['complaint_rate'].copy(); y = y.fillna(y.mean())
RegressionTarget(gdf) ==
    LET y == Column(gdf, "complaint_rate")
    IN  [i \in DOMAIN y |-> FillNa(y[i], Mean(y))]

\* analyze_spatial_patterns: global_stats
GlobalStats(gdf) ==
    LET rate == Column(gdf, "complaint_rate")
        count == Column(gdf, "complaint_count")
    IN  [total_complaints |-> SumOver(count, DOMAIN count),
         mean_complaint_rate |-> Mean(rate),
         max_complaint_rate |-> SeriesMax(rate),
         min_complaint_rate |-> SeriesMin(rate)]

\* run_analysis(): the regression is fitted before the spatial statistics; a target
\* that still holds NaN makes the fit raise, and the statistics are not computed.
Analyze ==
    /\ UNCHANGED other_vars
    /\ pc = "visualized"
    /\ regression_y' = RegressionTarget(LoadData)
    /\ IF \E i \in DOMAIN regression_y' : IsNaN(regression_y'[i])
       THEN /\ pc' = "analysis_failed"
            /\ UNCHANGED global_stats
       ELSE /\ pc' = "analyzed"
            /\ global_stats' = GlobalStats(LoadData)
    /\ UNCHANGED <<complaints_df, census_gdf, joined_gdf, unmatched, aggregated_gdf,
                   files, grid, run, first_aggregated>>

----------------------------------------------------------------------------
(* The script run again on the same Events and Regions *)

Rerun ==
    /\ UNCHANGED other_vars
    /\ pc \in {"analyzed", "analysis_failed"}
    /\ run < MaxRuns
    /\ run' = run + 1
    /\ first_aggregated' = IF run = 1 THEN aggregated_gdf ELSE first_aggregated
    /\ joined_gdf' = <<>>
    /\ unmatched' = 0
    /\ aggregated_gdf' = <<>>
    /\ pc' = "start"
    /\ UNCHANGED <<complaints_df, census_gdf, files, grid, regression_y, global_stats>>

Next == SpatialJoin \/ Aggregate \/ Visualize \/ Analyze \/ Rerun

Spec == Init /\ [][Next]_vars

----------------------------------------------------------------------------
(* The same script over Regions some of which lack a population value *)

RegionTablesOver(populations) ==
    UNION { { [i \in 1..n |-> [GEOID |-> i, population |-> pop[i], geometry |-> geo[i]]] :
                pop \in [1..n -> populations], geo \in [1..n -> SampleSquares] } :
            n \in 1..MaxRegions }

InitMissing ==
    /\ complaints_df \in EventTables
    /\ census_gdf \in RegionTablesOver({MissingPopulation, 2000})
    /\ joined_gdf = <<>>
    /\ unmatched = 0
    /\ aggregated_gdf = <<>>
    /\ files = NoFiles
    /\ grid = <<>>
    /\ regression_y = <<>>
    /\ global_stats = <<>>
    /\ pc = "start"
    /\ run = 1
    /\ first_aggregated = <<>>
    /\ OthersIdle

MissingSpec == InitMissing /\ [][Next]_vars

----------------------------------------------------------------------------
(* A run of the consumers alone, over the processed files *)

\* The run does no data processing: visualization.py run as a script (or main
\* under --skip-processing) reads the aggregated file an earlier run saved.
RunConsumersOnly ==
    /\ pc \in {"analyzed", "analysis_failed"}
    /\ run < MaxRuns
    /\ "aggregated" \in files.written
    /\ run' = run + 1
    /\ skipped' = skipped \cup {run + 1}
    /\ first_aggregated' = IF run = 1 THEN aggregated_gdf ELSE first_aggregated
    /\ joined_gdf' = <<>>
    /\ unmatched' = 0
    /\ aggregated_gdf' = files.aggregated
    /\ pc' = "aggregated"
    /\ UNCHANGED <<complaints_df, census_gdf, files, grid, regression_y, global_stats>>
    /\ UNCHANGED <<geometries, tract_ids, statistics, tracts, raw, prep, step_vars>>

ConsumerNext == Next \/ RunConsumersOnly

\* The Regions have no residents: their rate is inf or NaN in memory, and the
\* saved file holds neither.
ConsumerInit ==
    /\ complaints_df \in EventTables
    /\ census_gdf \in RegionTablesOver({0})
    /\ joined_gdf = <<>>
    /\ unmatched = 0
    /\ aggregated_gdf = <<>>
    /\ files = NoFiles
    /\ grid = <<>>
    /\ regression_y = <<>>
    /\ global_stats = <<>>
    /\ pc = "start"
    /\ run = 1
    /\ first_aggregated = <<>>
    /\ OthersIdle

ConsumerSpec == ConsumerInit /\ [][ConsumerNext]_vars

----------------------------------------------------------------------------
(* create_sample_census_data *)

n_tracts == 300

\* The draws of random.uniform under random.seed(42), in the order of the loop:
\* <<center_lon, center_lat, size>> of each polygon, in millionths of a degree.
Seed42Squares == <<
    <<-74236244, 40755771, 7750>>, <<-73844941, 40589284, 11767>>, <<-74202184, 40856872, 9219>>, <<-74129749, 40511919, 10054>>,
    <<-74140639, 40510614, 11499>>, <<-74128758, 40717977, 10893>>, <<-74246426, 40823772, 13058>>, <<-74062862, 40779256, 6555>>,
    <<-74064873, 40882885, 5927>>, <<-73783878, 40538687, 11037>>, <<-73848648, 40822851, 10362>>, <<-74041806, 40889246, 10520>>,
    <<-73909814, 40831762, 13617>>, <<-73862485, 40730941, 5458>>, <<-74090837, 40591159, 5798>>, <<-74194449, 40593116, 7780>>,
    <<-74049342, 40754274, 8702>>, <<-74103162, 40583803, 14367>>, <<-73914978, 40759214, 6711>>, <<-74160129, 40791651, 8795>>,
    <<-73898000, 40895809, 10569>>, <<-73786431, 40773846, 12760>>, <<-74232345, 40591619, 8155>>, <<-74133959, 40607096, 14429>>,
    <<-74076927, 40850547, 11554>>, <<-73746999, 40658253, 9589>>, <<-74114355, 40605952, 10614>>, <<-73928478, 40605097, 13978>>,
    <<-74129374, 40659760, 14975>>, <<-74200000, 40703811, 5471>>, <<-73904905, 40543860, 12921>>, <<-74215060, 40668864, 8816>>,
    <<-73958987, 40898449, 14711>>, <<-74243685, 40844312, 12207>>, <<-73954666, 40772684, 7668>>, <<-74188646, 40756385, 9348>>,
    <<-73725401, 40681489, 13759>>, <<-73974678, 40605356, 6787>>, <<-73771215, 40865051, 7984>>, <<-73915066, 40755580, 6528>>,
    <<-73953342, 40805004, 12786>>, <<-74249685, 40712141, 8242>>, <<-73738996, 40507791, 13787>>, <<-74080867, 40832666, 5579>>,
    <<-73729178, 40851204, 5857>>, <<-74211933, 40694396, 12606>>, <<-74179385, 40806334, 9753>>, <<-74104219, 40719921, 13724>>,
    <<-74133511, 40669255, 10393>>, <<-74139367, 40791972, 8117>>, <<-73892567, 40898060, 9381>>, <<-74183448, 40707030, 7247>>,
    <<-73926430, 40635234, 7301>>, <<-74210954, 40588087, 11311>>, <<-73752019, 40591577, 13596>>, <<-74119097, 40528343, 11690>>,
    <<-74177228, 40585695, 14355>>, <<-73990031, 40728417, 12846>>, <<-74145275, 40822999, 5969>>, <<-74017032, 40672420, 9670>>,
    <<-73879649, 40791630, 14842>>, <<-74028558, 40539367, 8393>>, <<-74113239, 40844669, 6902>>, <<-74017965, 40679445, 7785>>,
    <<-73742204, 40599923, 9431>>, <<-73947321, 40844540, 5506>>, <<-73790185, 40899713, 14690>>, <<-73783217, 40870547, 6663>>,
    <<-74132439, 40694256, 9010>>, <<-74041565, 40523454, 14853>>, <<-73818761, 40606081, 9550>>, <<-73723475, 40669203, 14954>>,
    <<-73854875, 40722307, 6548>>, <<-73717210, 40618683, 10792>>, <<-73838613, 40716878, 5572>>, <<-73973432, 40733671, 13527>>,
    <<-73721572, 40562973, 5801>>, <<-73922731, 40574330, 11752>>, <<-74184062, 40594082, 13903>>, <<-73923014, 40598486, 11194>>,
    <<-73928980, 40667690, 10228>>, <<-74137657, 40873883, 12162>>, <<-74032318, 40595474, 11717>>, <<-74076103, 40619999, 12519>>,
    <<-73997943, 40529017, 14985>>, <<-74209707, 40898439, 7132>>, <<-73736707, 40606080, 13809>>, <<-74046760, 40851708, 6577>>,
    <<-73863053, 40833498, 11117>>, <<-73890313, 40894893, 5078>>, <<-74085342, 40826842, 11634>>, <<-74176140, 40875572, 6154>>,
    <<-73945727, 40542814, 7723>>, <<-73855313, 40741932, 7036>>, <<-74104809, 40753695, 9885>>, <<-73784643, 40862135, 5923>>,
    <<-74097826, 40669430, 5035>>, <<-73899588, 40808448, 7620>>, <<-73946576, 40796492, 9277>>, <<-74208616, 40503868, 13831>>,
    <<-73949925, 40861571, 13346>>, <<-74168548, 40733004, 6274>>, <<-73755560, 40623303, 12961>>, <<-73755591, 40844281, 7101>>,
    <<-74193464, 40599812, 12801>>, <<-74026492, 40853654, 11207>>, <<-73738565, 40561821, 13646>>, <<-73804076, 40890482, 13814>>,
    <<-73844890, 40509915, 8322>>, <<-73808771, 40872326, 13641>>, <<-74103257, 40824300, 12874>>, <<-73770308, 40543238, 13586>>,
    <<-73800877, 40588973, 9603>>, <<-73812560, 40622076, 7276>>, <<-74143779, 40509466, 8283>>, <<-73718211, 40845741, 7791>>,
    <<-74030177, 40756593, 14811>>, <<-73733420, 40714486, 6153>>, <<-74151788, 40888160, 14625>>, <<-74190379, 40606187, 9346>>,
    <<-74077477, 40791418, 11062>>, <<-74038143, 40704569, 10766>>, <<-73860168, 40601889, 5017>>, <<-73953851, 40870230, 12194>>,
    <<-73881154, 40796780, 8642>>, <<-73884669, 40527990, 8302>>, <<-73783592, 40625566, 12198>>, <<-74079893, 40620129, 9084>>,
    <<-74087390, 40660960, 6273>>, <<-73732800, 40668179, 11773>>, <<-73911467, 40861122, 8009>>, <<-74249777, 40719175, 7869>>,
    <<-73931008, 40671955, 11547>>, <<-74006812, 40685995, 7137>>, <<-73754351, 40689274, 12960>>, <<-74203362, 40567877, 10155>>,
    <<-74065646, 40753176, 13184>>, <<-73879962, 40800455, 7246>>, <<-74236566, 40579652, 7448>>, <<-73782644, 40690055, 5728>>,
    <<-73903629, 40665776, 6944>>, <<-73978093, 40778542, 7440>>, <<-74246950, 40762423, 12510>>, <<-74191377, 40808018, 9251>>,
    <<-73723119, 40570355, 10180>>, <<-74112941, 40520087, 13483>>, <<-73809221, 40682585, 11676>>, <<-73922501, 40895157, 14500>>,
    <<-73913041, 40856570, 12193>>, <<-73793187, 40701911, 10479>>, <<-73840990, 40858883, 9747>>, <<-74114018, 40603677, 11377>>,
    <<-73963285, 40806325, 11267>>, <<-74207384, 40609839, 7857>>, <<-74074160, 40608686, 10402>>, <<-74122806, 40555350, 11939>>,
    <<-74214674, 40782568, 9076>>, <<-74021324, 40717044, 7068>>, <<-73752339, 40668057, 10841>>, <<-73778797, 40778209, 12656>>,
    <<-74246757, 40652152, 8518>>, <<-73780604, 40801390, 14534>>, <<-73838866, 40667609, 10461>>, <<-74128704, 40741301, 7194>>,
    <<-74234036, 40674334, 8361>>, <<-74027626, 40771657, 6650>>, <<-74179805, 40686956, 11223>>, <<-74033289, 40510787, 10644>>,
    <<-73896488, 40510841, 6357>>, <<-74222343, 40684679, 8791>>, <<-74070235, 40584664, 12612>>, <<-73836395, 40651650, 13319>>,
    <<-74204952, 40600909, 5194>>, <<-73700051, 40715768, 8500>>, <<-73820322, 40760058, 11518>>, <<-73727714, 40801693, 6994>>,
    <<-74166190, 40508152, 6262>>, <<-73939817, 40767784, 7180>>, <<-73828206, 40779786, 6678>>, <<-73838641, 40742899, 6145>>,
    <<-73719404, 40827720, 6081>>, <<-74078424, 40510271, 11773>>, <<-74031840, 40883269, 12150>>, <<-73870162, 40530399, 11272>>,
    <<-73825136, 40540761, 13503>>, <<-74183420, 40740165, 14838>>, <<-74059038, 40813054, 9284>>, <<-73971722, 40648228, 8412>>,
    <<-73797718, 40839830, 6055>>, <<-73900428, 40884315, 13287>>, <<-74010482, 40782923, 12338>>, <<-74101455, 40886189, 13082>>,
    <<-73984076, 40715269, 9356>>, <<-74102382, 40792410, 13517>>, <<-74202335, 40832292, 13816>>, <<-73994410, 40597545, 11103>>,
    <<-74234215, 40651596, 13510>>, <<-74133334, 40572736, 12978>>, <<-73765824, 40636136, 12012>>, <<-74244417, 40610507, 14481>>,
    <<-73853959, 40534245, 9886>>, <<-73870165, 40803266, 11459>>, <<-73813887, 40696329, 5931>>, <<-73869517, 40588639, 8062>>,
    <<-73989707, 40732622, 10309>>, <<-73839736, 40670202, 8308>>, <<-74100996, 40781142, 7514>>, <<-74144079, 40548262, 6196>>,
    <<-73830796, 40714346, 6851>>, <<-73983691, 40586554, 12246>>, <<-73961450, 40890643, 7830>>, <<-74143235, 40540210, 7275>>,
    <<-74242218, 40571777, 10341>>, <<-73714138, 40609725, 10534>>, <<-74180546, 40778967, 13685>>, <<-73770004, 40696351, 10741>>,
    <<-74007742, 40687759, 6844>>, <<-73732415, 40520551, 9777>>, <<-74029611, 40828846, 5741>>, <<-74220515, 40751778, 6492>>,
    <<-74082890, 40725136, 14939>>, <<-73829556, 40547381, 11063>>, <<-74125872, 40816296, 10226>>, <<-74006503, 40680206, 13602>>,
    <<-74082041, 40896013, 11210>>, <<-73842951, 40743852, 14476>>, <<-74133936, 40583115, 11604>>, <<-74154403, 40562823, 5751>>,
    <<-74002223, 40501070, 10938>>, <<-74122688, 40616504, 12070>>, <<-74000283, 40781195, 11874>>, <<-73816695, 40869564, 11251>>,
    <<-73736482, 40764473, 9251>>, <<-73893801, 40717825, 14084>>, <<-74210725, 40830652, 6659>>, <<-73838073, 40623045, 10692>>,
    <<-74181605, 40615444, 11887>>, <<-73731528, 40779893, 10005>>, <<-74205757, 40697518, 5399>>, <<-74072723, 40672811, 7504>>,
    <<-73720949, 40536531, 13360>>, <<-73727068, 40730080, 14996>>, <<-74101769, 40768913, 5402>>, <<-73991225, 40802508, 11515>>,
    <<-74150181, 40866429, 10853>>, <<-73979551, 40753914, 5912>>, <<-74066680, 40639184, 11701>>, <<-74068608, 40843093, 11937>>,
    <<-73730144, 40615287, 13136>>, <<-73999846, 40720039, 8145>>, <<-73716398, 40629310, 9042>>, <<-73706534, 40705839, 11577>>,
    <<-74022714, 40717037, 6876>>, <<-73833956, 40644712, 11254>>, <<-74138043, 40803996, 10492>>, <<-74009036, 40871069, 11983>>,
    <<-73714769, 40548570, 11089>>, <<-74162892, 40595719, 10508>>, <<-74198735, 40720901, 14923>>, <<-73996204, 40865172, 6175>>,
    <<-73975893, 40832857, 12166>>, <<-74099616, 40703549, 13347>>, <<-74115948, 40892098, 10513>>, <<-73742973, 40653434, 10082>>,
    <<-73774785, 40851731, 7762>>, <<-74021782, 40816002, 14342>>, <<-73798698, 40703095, 7828>>, <<-73927184, 40619422, 14989>>,
    <<-74168273, 40695856, 10386>>, <<-73946445, 40638050, 10434>>, <<-74073022, 40682138, 6887>>, <<-73935511, 40778999, 7336>>,
    <<-74225994, 40810218, 12447>>, <<-73803725, 40782091, 8861>>, <<-73798589, 40765476, 14808>>, <<-74229639, 40698131, 10023>>,
    <<-73771665, 40736072, 13742>>, <<-73960727, 40676122, 9569>>, <<-74024512, 40788978, 11548>>, <<-73991780, 40561744, 14692>>,
    <<-73869012, 40635424, 11498>>, <<-73781212, 40840706, 13593>>, <<-74075836, 40652004, 12187>>, <<-73770189, 40803761, 5359>>,
    <<-73902861, 40527368, 14209>>, <<-73839278, 40898970, 9340>>, <<-73901439, 40539377, 13726>>, <<-73868299, 40677471, 14034>>,
    <<-73812121, 40518396, 7934>>, <<-74169937, 40649936, 10312>>, <<-73814114, 40726371, 6700>>, <<-73771038, 40531587, 11197>>,
    <<-73747944, 40596332, 6431>>, <<-74110312, 40684460, 7553>>, <<-73807452, 40503759, 14012>>, <<-74163113, 40771044, 9417>>,
    <<-73926836, 40638226, 11389>>, <<-74112446, 40669724, 13453>>, <<-74038419, 40579687, 9832>>, <<-73935443, 40594882, 10748>> >>

\* The draws of random.randint(100000, 999999) that follow them.
Seed42TractIds == <<
    833247, 409571, 123005, 970357, 790203, 515032, 387813, 108491, 693419, 819112, 916118, 880841,
    151426, 735863, 881369, 620856, 973294, 400096, 913423, 937665, 341296, 736553, 940886, 469435,
    329642, 767542, 299367, 751051, 362801, 810687, 892280, 855948, 904751, 791201, 813928, 979060,
    243423, 758765, 201883, 757937, 777737, 141337, 423939, 926918, 562236, 134985, 707727, 482584,
    867934, 237795, 194511, 409445, 442589, 883790, 535686, 284171, 310548, 238579, 924718, 665610,
    483629, 656639, 626169, 385765, 970813, 272537, 369452, 964749, 605254, 945664, 409478, 882824,
    455168, 943298, 220764, 591081, 178957, 247594, 890785, 336574, 809176, 859396, 807166, 516716,
    986827, 943671, 684384, 483542, 194689, 929090, 513741, 114594, 377304, 662636, 229592, 576877,
    486490, 805511, 885395, 805000, 374896, 712955, 499534, 962367, 769567, 489518, 213609, 807617,
    345180, 594379, 126240, 749641, 688678, 443939, 739717, 332120, 779112, 166287, 766269, 963874,
    586819, 835132, 416869, 780776, 528129, 222343, 246566, 147549, 139019, 419149, 616554, 221761,
    201913, 346205, 663658, 242254, 507524, 575679, 489033, 803055, 879238, 830316, 666432, 539486,
    715870, 878325, 861894, 262029, 535037, 786735, 203831, 974190, 613117, 745558, 527940, 393328,
    134305, 823811, 488528, 327823, 564920, 566297, 347582, 997004, 480303, 204180, 818987, 485178,
    670913, 776149, 476096, 163491, 517479, 389282, 299028, 228093, 989227, 964226, 576805, 196126,
    794963, 322409, 772875, 770556, 726152, 122394, 153035, 925013, 449709, 355400, 232040, 925206,
    692002, 315173, 171942, 970127, 902325, 681128, 317220, 714867, 326441, 952547, 344316, 444519,
    911984, 254721, 926952, 724932, 102973, 390743, 251716, 236306, 666456, 362829, 937302, 282973,
    215266, 793169, 127032, 238205, 115582, 475644, 928358, 926730, 349489, 717457, 439498, 116547,
    282710, 378258, 154944, 232915, 877747, 541409, 651640, 219169, 881886, 166645, 599380, 570050,
    915809, 479625, 638169, 722503, 214351, 573962, 628313, 332311, 744986, 145471, 862569, 921273,
    790909, 646781, 416282, 580292, 774591, 132663, 163780, 602248, 988456, 521126, 546980, 819425,
    213206, 614084, 847006, 565108, 177060, 184714, 437758, 737846, 255539, 168872, 232321, 388375,
    754644, 763829, 713799, 674993, 846746, 440981, 499407, 726410, 656329, 409222, 575755, 630108,
    734836, 551096, 203996, 931621, 835869, 219971, 994217, 786516, 782535, 906315, 678116, 855855 >>

\* The rectangular polygon around the k-th centre point.
Polygon(k) ==
    [clon |-> Seed42Squares[k][1], clat |-> Seed42Squares[k][2], size |-> Seed42Squares[k][3]]

\* A GEOID that keeps only the last three digits of the drawn number.
TractIdLastDigits(k) == <<36061, Seed42TractIds[k] % 1000>>

\* f"36061{random.randint(100000, 999999)}": the prefix followed by the six
\* digits of the drawn number.
TractId(k) == <<36061, Seed42TractIds[k]>>

\* for _ in range(n_tracts): geometries.append(polygon)
AppendPolygon ==
    /\ Len(geometries) < n_tracts
    /\ geometries' = Append(geometries, Polygon(Len(geometries) + 1))
    /\ UNCHANGED <<tract_ids, tracts, statistics, raw, prep, skipped, step_vars, pipeline_vars>>

\* tract_ids = [... for _ in range(n_tracts)], one element at a time.
AppendTractId ==
    /\ Len(geometries) = n_tracts
    /\ Len(tract_ids) < n_tracts
    /\ tract_ids' = Append(tract_ids, TractId(Len(tract_ids) + 1))
    /\ UNCHANGED <<geometries, tracts, statistics, raw, prep, skipped, step_vars, pipeline_vars>>

\* gdf = gpd.GeoDataFrame({'GEOID': tract_ids, ..., 'geometry': geometries})
BuildGeoDataFrame ==
    /\ Len(geometries) = n_tracts
    /\ Len(tract_ids) = n_tracts
    /\ tracts = <<>>
    /\ tracts' = [k \in 1..n_tracts |-> [GEOID |-> tract_ids[k], geometry |-> geometries[k]]]
    /\ UNCHANGED <<geometries, tract_ids, statistics, raw, prep, skipped, step_vars, pipeline_vars>>

\* The script has not started.
PipelineIdle ==
    /\ complaints_df = <<>>
    /\ census_gdf = <<>>
    /\ joined_gdf = <<>>
    /\ unmatched = 0
    /\ aggregated_gdf = <<>>
    /\ files = NoFiles
    /\ grid = <<>>
    /\ regression_y = <<>>
    /\ global_stats = <<>>
    /\ pc = "idle"
    /\ run = 1
    /\ first_aggregated = <<>>

GenInit == PipelineIdle /\ OthersIdle

GenNext == AppendPolygon \/ AppendTractId \/ BuildGeoDataFrame

GenSpec == GenInit /\ [][GenNext]_vars

----------------------------------------------------------------------------
(* create_sample_census_data: the socioeconomic columns *)

MaxTracts == 2

\* Where in its range a draw falls: 0 is the low end, 1 the high end.
Draws == {0, 1}

\* An integer draw whose range starts at 0 instead of a.
randintFromZero(a, b) == { b * k : k \in Draws }

\* random.randint(a, b): an integer of a..b.
randint(a, b) == { a + (b - a) * k : k \in Draws }

\* random.uniform(a, b) = a + (b - a) * random(), with a and b in hundredths.
uniform(a, b) == { Num(a + (b - a) * k, 100) : k \in Draws }

\* One row of the columns of lines 202-206; the draws are independent, so the
\* lists are filled here row by row.
DrawStatistics ==
    /\ Len(statistics) < MaxTracts
    /\ \E population \in randint(1000, 10000),
          pct_college \in uniform(10, 90),
          pct_poverty \in uniform(5, 40),
          pct_owner_occupied \in uniform(10, 80),
          pct_minority \in uniform(10, 90) :
            statistics' = Append(statistics,
                                 [population |-> population,
                                  pct_college |-> pct_college,
                                  pct_poverty |-> pct_poverty,
                                  pct_owner_occupied |-> pct_owner_occupied,
                                  pct_minority |-> pct_minority])
    /\ UNCHANGED <<geometries, tract_ids, tracts, raw, prep, skipped, step_vars, pipeline_vars>>

DrawInit == PipelineIdle /\ OthersIdle

DrawNext == DrawStatistics

DrawSpec == DrawInit /\ [][DrawNext]_vars

----------------------------------------------------------------------------
(* download_and_prepare_data, called by the script *)

\* What a cache file may hold when a run starts: nothing, a table that reads
\* back, bytes that do not parse, or a file the process may not open.
Contents == {"absent", "valid", "corrupt", "unreadable"}

\* os.path.exists(path)
Exists(file) == file.content # "absent"

\* The exception pd.read_csv raises on the file, "none" when it returns a table.
\* A parse error names no file; an OSError names it.
ReadCsv(file) ==
    CASE file.content = "corrupt" -> [cause |-> "ParserError", path |-> FALSE]
      [] file.content = "unreadable" -> [cause |-> "PermissionError", path |-> TRUE]
      [] OTHER -> NoError

\* The exception gpd.read_file raises on the file, "none" when it returns a table.
ReadFile(file) ==
    CASE file.content = "corrupt" -> [cause |-> "DataSourceError", path |-> TRUE]
      [] file.content = "unreadable" -> [cause |-> "PermissionError", path |-> TRUE]
      [] OTHER -> NoError

n_complaints == 100000

\* A value of the dictionary given to pd.DataFrame: a list (or range) of len
\* elements, or a scalar.
List(len) == [kind |-> "list", len |-> len]
Scalar == [kind |-> "scalar", len |-> 0]

\* The dictionary of lines 129-143: every list has n_complaints elements, except
\* 'Location Type', a list of three place names.
Sample311Columns ==
    [unique_key |-> List(n_complaints), created_date |-> List(n_complaints),
     closed_date |-> List(n_complaints), agency |-> Scalar,
     complaint_type |-> List(n_complaints), descriptor |-> List(n_complaints),
     location_type |-> List(3), incident_zip |-> List(n_complaints),
     incident_address |-> List(n_complaints), status |-> List(n_complaints),
     borough |-> List(n_complaints), latitude |-> List(n_complaints),
     longitude |-> List(n_complaints)]

\* pd.DataFrame(dict): a scalar is repeated for every row; lists of different
\* lengths raise ValueError ("All arrays must be of the same length").
DataFrame(columns) ==
    LET lengths == { columns[c].len : c \in { d \in DOMAIN columns : columns[d].kind = "list" } }
    IN  IF Cardinality(lengths) = 1
        THEN [raised |-> "none", rows |-> CHOOSE n \in lengths : TRUE,
              columns |-> DOMAIN columns]
        ELSE [raised |-> "ValueError", rows |-> 0, columns |-> {}]

\* create_sample_311_data: pd.DataFrame is given a 'Location Type' list of 3
\* values beside columns of n_complaints values, and raises ValueError.
CreateSample311Data ==
    IF DataFrame(Sample311Columns).raised = "none" THEN NoError
    ELSE [cause |-> DataFrame(Sample311Columns).raised, path |-> FALSE]

\* create_sample_census_data returns its GeoDataFrame.
CreateSampleCensusData == NoError

\* to_csv / to_file: the file is created with the generated table.
Written(file) == [content |-> "generated", writes |-> file.writes + 1]

Raise(error) == [prep EXCEPT !.pc = "raised", !.error = error]

\* Lines 37-46: the Events are loaded from the cache if it exists, created and
\* saved otherwise.
PrepareEvents ==
    /\ prep.pc = "start"
    /\ IF Exists(raw.events)
       THEN /\ prep' = IF ReadCsv(raw.events) = NoError
                       THEN [prep EXCEPT !.pc = "events", !.complaints_df = "loaded"]
                       ELSE Raise(ReadCsv(raw.events))
            /\ raw' = raw
       ELSE IF CreateSample311Data = NoError
            THEN /\ prep' = [prep EXCEPT !.pc = "events", !.complaints_df = "generated"]
                 /\ raw' = [raw EXCEPT !.events = Written(raw.events)]
            ELSE /\ prep' = Raise(CreateSample311Data)
                 /\ raw' = raw
    /\ UNCHANGED <<geometries, tract_ids, statistics, tracts, skipped, step_vars, pipeline_vars>>

\* Lines 48-65: the same for the Regions, then the return.
PrepareCensus ==
    /\ prep.pc = "events"
    /\ IF Exists(raw.census)
       THEN /\ prep' = IF ReadFile(raw.census) = NoError
                       THEN [prep EXCEPT !.pc = "returned", !.census_gdf = "loaded"]
                       ELSE Raise(ReadFile(raw.census))
            /\ raw' = raw
       ELSE IF CreateSampleCensusData = NoError
            THEN /\ prep' = [prep EXCEPT !.pc = "returned", !.census_gdf = "generated"]
                 /\ raw' = [raw EXCEPT !.census = Written(raw.census)]
            ELSE /\ prep' = Raise(CreateSampleCensusData)
                 /\ raw' = raw
    /\ UNCHANGED <<geometries, tract_ids, statistics, tracts, skipped, step_vars, pipeline_vars>>

\* The script has no try around the call: the exception ends the process with
\* its traceback and a non-zero status.
Uncaught ==
    /\ prep.pc = "raised"
    /\ prep' = [prep EXCEPT !.pc = "exited", !.exit = 1]
    /\ UNCHANGED <<raw, geometries, tract_ids, statistics, tracts, skipped, step_vars, pipeline_vars>>

\* The script is started again over the files the earlier run left.
RunScriptAgain ==
    /\ prep.pc \in {"returned", "exited"}
    /\ prep.run < MaxRuns
    /\ prep' = [NotCalled EXCEPT !.pc = "start", !.run = prep.run + 1]
    /\ UNCHANGED <<raw, geometries, tract_ids, statistics, tracts, skipped, step_vars, pipeline_vars>>

PrepInit ==
    /\ PipelineIdle
    /\ geometries = <<>>
    /\ tract_ids = <<>>
    /\ statistics = <<>>
    /\ tracts = <<>>
    /\ skipped = {}
    /\ StepsIdle
    /\ raw \in [events : [content : Contents, writes : {0}],
                census : [content : Contents, writes : {0}]]
    /\ prep = [NotCalled EXCEPT !.pc = "start"]

PrepNext == PrepareEvents \/ PrepareCensus \/ Uncaught \/ RunScriptAgain

PrepSpec == PrepInit /\ [][PrepNext]_vars

----------------------------------------------------------------------------
(* run_analysis.main *)

\* parse_arguments(): the flags of the command line and --year.
Arguments ==
    [year : {2019, 2020}, sample : BOOLEAN, skip_processing : BOOLEAN,
     skip_visualization : BOOLEAN, skip_analysis : BOOLEAN]

\* The processed files an earlier run of the processing script has left.
ProcessedFiles == [NoFiles EXCEPT !.written = {"joined", "aggregated"}, !.produced = 1]

\* data_processing.process_data(): the module defines no such function, and the
\* attribute lookup raises.
ProcessData == "AttributeError"

\* data_processing.download_nyc_311_data(...): not defined either.
DownloadNyc311Data == "AttributeError"

Logged(m, messages) == [m EXCEPT !.log = @ \o messages]

\* The except clause also logs the end of the pipeline.
Step1FailedFallingThrough(m, message, error) ==
    [Logged(m, <<message, "Analysis pipeline completed">>)
        EXCEPT !.pc = "returned", !.error = error]

\* except Exception as e: logger.error(...); return
Step1Failed(m, message, error) ==
    [Logged(m, <<message>>) EXCEPT !.pc = "returned", !.error = error]

\* Lines 64-70: the arguments are parsed, logging is set up, the start is logged.
StartMain ==
    /\ main.pc = "start"
    /\ \E args \in Arguments :
          main' = [Logged(main, <<"Starting NYC flood-related 311 complaints analysis",
                                  "Arguments">>)
                      EXCEPT !.pc = "directories", !.args = args]
    /\ UNCHANGED <<geometries, tract_ids, statistics, tracts, raw, prep, skipped,
                   flt, point_map, pixel, vis, pipeline_vars>>

\* Lines 72-80: the data, figures and results directories are created.
MakeDirectories ==
    /\ main.pc = "directories"
    /\ main' = [main EXCEPT !.pc = "step1"]
    /\ UNCHANGED <<geometries, tract_ids, statistics, tracts, raw, prep, skipped,
                   flt, point_map, pixel, vis, pipeline_vars>>

\* Lines 83-100: step 1.  Steps 2 and 3 follow only a step 1 that returns.
Step1 ==
    /\ main.pc = "step1"
    /\ main' =
          IF ~main.args.skip_processing
          THEN LET m == Logged(main, <<"Step 1: Processing data">>)
               IN  IF ProcessData = "returned"
                   THEN [Logged(m, <<"Data processing completed successfully">>)
                            EXCEPT !.pc = "step2"]
                   ELSE Step1Failed(m, "Error in data processing", ProcessData)
          ELSE LET m == Logged(main, <<"Skipping data processing, loading processed data">>)
               IN  IF DownloadNyc311Data = "returned"
                   THEN [Logged(m, <<"Processed data loaded successfully">>)
                            EXCEPT !.pc = "step2"]
                   ELSE Step1Failed(m, "Error loading processed data", DownloadNyc311Data)
    /\ UNCHANGED <<geometries, tract_ids, statistics, tracts, raw, prep, skipped,
                   flt, point_map, pixel, vis, pipeline_vars>>

MainInit ==
    /\ complaints_df = <<>>
    /\ census_gdf = <<>>
    /\ joined_gdf = <<>>
    /\ unmatched = 0
    /\ aggregated_gdf = <<>>
    /\ files \in {NoFiles, ProcessedFiles}
    /\ grid = <<>>
    /\ regression_y = <<>>
    /\ global_stats = <<>>
    /\ pc = "idle"
    /\ run = 1
    /\ first_aggregated = <<>>
    /\ BeforeJoinIdle
    /\ FilterIdle
    /\ PointMapIdle
    /\ PlotsIdle
    /\ main = [pc |-> "start", args |-> <<>>, log |-> <<>>, error |-> "none"]

MainNext == StartMain \/ MakeDirectories \/ Step1

MainSpec == MainInit /\ [][MainNext]_vars

----------------------------------------------------------------------------
(* filter_flood_complaints *)

\* Strings are sequences of characters.
flood_keywords == <<
    <<"f", "l", "o", "o", "d">>,
    <<"w", "a", "t", "e", "r">>,
    <<"s", "e", "w", "e", "r">>,
    <<"d", "r", "a", "i", "n">>,
    <<"b", "a", "s", "i", "n">>,
    <<"w", "e", "t">>,
    <<"l", "e", "a", "k">>,
    <<"p", "l", "u", "m", "b">> >>

\* Complaint types of the sample: a keyword in capitals, one inside a word, a
\* misspelt one, and a type without keyword.
ComplaintTypes == {
    <<"S", "e", "w", "e", "r", " ", "B", "a", "c", "k", "u", "p">>,
    <<"N", "o", "i", "s", "e">>,
    <<"W", "A", "T", "E", "R", " ", "L", "E", "A", "K">>,
    <<"R", "a", "i", "n", "w", "a", "t", "e", "r">>,
    <<"D", "r", "i", "a", "n">> }

\* A Complaint Type cell without a value.
MissingType == <<>>

UpperCase == <<"A", "B", "C", "D", "E", "F", "G", "H", "I", "J", "K", "L", "M", "N", "O", "P", "Q", "R", "S", "T", "U", "V", "W", "X", "Y", "Z">>
LowerCase == <<"a", "b", "c", "d", "e", "f", "g", "h", "i", "j", "k", "l", "m", "n", "o", "p", "q", "r", "s", "t", "u", "v", "w", "x", "y", "z">>

\* str.lower(), character by character.
LowerChar(c) ==
    IF \E i \in DOMAIN UpperCase : UpperCase[i] = c
    THEN LowerCase[CHOOSE i \in DOMAIN UpperCase : UpperCase[i] = c]
    ELSE c

Lower(str) == [i \in DOMAIN str |-> LowerChar(str[i])]

\* '|'.join(words)
RECURSIVE Join(_, _)
Join(words, sep) ==
    IF Len(words) = 0 THEN <<>>
    ELSE IF Len(words) = 1 THEN words[1]
    ELSE words[1] \o <<sep>> \o Join(Tail(words), sep)

pattern == Join(flood_keywords, "|")

\* The alternatives of a regular expression made of literals and '|'.
RECURSIVE Alternatives(_)
Alternatives(p) ==
    IF \E i \in DOMAIN p : p[i] = "|"
    THEN LET i == CHOOSE j \in DOMAIN p : p[j] = "|" /\ \A k \in 1..(j - 1) : p[k] # "|"
         IN  {SubSeq(p, 1, i - 1)} \cup Alternatives(SubSeq(p, i + 1, Len(p)))
    ELSE {p}

\* re.match semantics: the expression must match at the start of the string.
MatchAtStart(p, str) ==
    \E alt \in Alternatives(p) :
        /\ Len(alt) <= Len(str)
        /\ \A k \in 1..Len(alt) : str[k] = alt[k]

\* str.contains(pattern) is re.search: a match starting at any position.
Search(p, str) ==
    \E start \in 1..(Len(str) + 1) :
        \E alt \in Alternatives(p) :
            /\ start + Len(alt) - 1 <= Len(str)
            /\ \A k \in 1..Len(alt) : str[start + k - 1] = alt[k]

\* .str.lower().str.contains(pattern, na=False): a missing cell yields False.
IsFloodComplaint(row) ==
    IF row.complaint_type = MissingType THEN FALSE
    ELSE Search(pattern, Lower(row.complaint_type))

\* complaints_df[mask]: the rows of the mask, in their order.
FilterFloodComplaintsOf(df) == SelectSeq(df, IsFloodComplaint)

ComplaintTables ==
    UNION { { [i \in 1..n |-> [unique_key |-> i, complaint_type |-> types[i]]] :
                types \in [1..n -> ComplaintTypes \cup {MissingType}] } :
            n \in 0..MaxEvents }

\* The call of lines 328-329: the result is returned and saved as CSV.
FilterFloodComplaints ==
    /\ flt.calls = 0
    /\ flt' = [flt EXCEPT !.flood_complaints = FilterFloodComplaintsOf(flt.df),
                          !.file = FilterFloodComplaintsOf(flt.df),
                          !.calls = 1]
    /\ UNCHANGED <<geometries, tract_ids, statistics, tracts, raw, prep, skipped,
                   main, point_map, pixel, vis, pipeline_vars>>

\* The filter applied to its own result.
FilterAgain ==
    /\ flt.calls = 1
    /\ flt' = [flt EXCEPT !.again = FilterFloodComplaintsOf(flt.flood_complaints),
                          !.file = FilterFloodComplaintsOf(flt.flood_complaints),
                          !.calls = 2]
    /\ UNCHANGED <<geometries, tract_ids, statistics, tracts, raw, prep, skipped,
                   main, point_map, pixel, vis, pipeline_vars>>

FilterInit ==
    /\ PipelineIdle
    /\ BeforeJoinIdle
    /\ MainIdle
    /\ PointMapIdle
    /\ PlotsIdle
    /\ flt \in [df : ComplaintTables, flood_complaints : {<<>>}, again : {<<>>},
                 file : {<<>>}, calls : {0}]

FilterNext == FilterFloodComplaints \/ FilterAgain

FilterSpec == FilterInit /\ [][FilterNext]_vars

----------------------------------------------------------------------------
(* The point-map builders *)

MaxPoints == 4

Builders == {"create_point_interactive_map", "create_fast_point_map",
             "create_category_point_map", "create_time_animated_map",
             "create_precise_point_map"}

\* max_points: None, or a number of points.
MaxPointsArguments ==
    {[given |-> FALSE, n |-> 0]} \cup { [given |-> TRUE, n |-> k] : k \in 0..MaxPoints }

\* The rows of a table with the position they have in it.
Indexed(df) ==
    [i \in DOMAIN df |-> [index |-> i, Latitude |-> df[i].Latitude,
                          Longitude |-> df[i].Longitude]]

\* A draw of n rows in which a row may be drawn more than once.
SamplesWithReplacement(df, n) ==
    { [k \in 1..n |-> Indexed(df)[pos[k]]] : pos \in [1..n -> DOMAIN df] }

\* df.sample(n, random_state=42): n rows drawn without replacement, in the order
\* of the draw; which rows the generator picks is left open.
Samples(df, n) ==
    { [k \in 1..n |-> Indexed(df)[pos[k]]] :
        pos \in { q \in [1..n -> DOMAIN df] : \A j, k \in 1..n : q[j] = q[k] => j = k } }

\* The copy of the table after the limit of max_points is applied.
Limited(df, max_points) ==
    IF max_points.given /\ Len(df) > max_points.n
    THEN Samples(df, max_points.n)
    ELSE {Indexed(df)}

\* One builder, from the copy to the saved map: a marker is placed for every
\* row of the limited copy.  The centre of an empty copy is NaN, which
\* folium.Map rejects before any marker is placed.
BuildPointMap ==
    /\ point_map.pc = "called"
    /\ \E df_copy \in Limited(point_map.df, point_map.max_points) :
          point_map' = IF df_copy = <<>>
                       THEN [point_map EXCEPT !.pc = "raised"]
                       ELSE [point_map EXCEPT !.pc = "saved", !.placed = df_copy]
    /\ UNCHANGED <<geometries, tract_ids, statistics, tracts, raw, prep, skipped,
                   main, flt, pixel, vis, pipeline_vars>>

PointMapInit ==
    /\ PipelineIdle
    /\ BeforeJoinIdle
    /\ MainIdle
    /\ FilterIdle
    /\ PlotsIdle
    /\ point_map \in [pc : {"called"}, builder : Builders, df : EventTables,
                       max_points : MaxPointsArguments, placed : {<<>>}]

PointMapNext == BuildPointMap

PointMapSpec == PointMapInit /\ [][PointMapNext]_vars

----------------------------------------------------------------------------
(* visualization.create_simplified_pixel_map, one pass of its loop at a time *)

\* Values of the painted column: a rate, a count, and the undefined rate.
PixelValues == { Num(1, 2000), Num(3, 1), NaN }

PixelRows == [complaint_rate : PixelValues, geometry : SampleSquares \cup {None}]

\* The GeoDataFrames with at least one geometry, so that total_bounds is a box.
PixelTables ==
    { t \in UNION { [1..n -> PixelRows] : n \in 1..MaxPixelRegions } :
        \E i \in DOMAIN t : t[i].geometry # None }

\* Lines 77-85: the bounds, the cell size and the grid of zeros.
CreateSimplifiedPixelMap ==
    /\ pixel.pc = "start"
    /\ pixel' = [pixel EXCEPT !.pc = "loop", !.n = 0, !.grid = Zeros, !.written = {}]
    /\ UNCHANGED <<geometries, tract_ids, statistics, tracts, raw, prep, skipped,
                   main, flt, point_map, vis, pipeline_vars>>

\* Lines 88-108: the pass of the loop for the next row of gdf.
PaintNextRegion ==
    /\ pixel.pc = "loop"
    /\ pixel.n < Len(pixel.gdf)
    /\ LET row_data == pixel.gdf[pixel.n + 1]
           tb == TotalBounds(pixel.gdf)
       IN  pixel' = [pixel EXCEPT
                        !.n = @ + 1,
                        !.grid = PaintRegion(@, row_data, "complaint_rate", tb, Resolution),
                        !.written = @ \cup CellsWritten(row_data, tb, Resolution)]
    /\ UNCHANGED <<geometries, tract_ids, statistics, tracts, raw, prep, skipped,
                   main, flt, point_map, vis, pipeline_vars>>

\* Lines 110-133: the loop is over, the grid is drawn and saved.
ShowPixelMap ==
    /\ pixel.pc = "loop"
    /\ pixel.n = Len(pixel.gdf)
    /\ pixel' = [pixel EXCEPT !.pc = "done"]
    /\ UNCHANGED <<geometries, tract_ids, statistics, tracts, raw, prep, skipped,
                   main, flt, point_map, vis, pipeline_vars>>

PixelInit ==
    /\ PipelineIdle
    /\ BeforeJoinIdle
    /\ MainIdle
    /\ FilterIdle
    /\ PointMapIdle
    /\ VisIdle
    /\ \E t \in PixelTables :
          pixel = [pc |-> "start", gdf |-> t, n |-> 0, grid |-> <<>>, written |-> {}]

PixelNext == CreateSimplifiedPixelMap \/ PaintNextRegion \/ ShowPixelMap

PixelSpec == PixelInit /\ [][PixelNext]_vars

----------------------------------------------------------------------------
(* visualization.visualize_data and the caller's complaints_df *)

\* A cell of the Created Date column: a string as read from the CSV file, or a
\* Timestamp as the column holds once it has the dtype datetime64.
Str(text) == [kind |-> "str", text |-> text]
Timestamp(year, month, day) ==
    [kind |-> "Timestamp", year |-> year, month |-> month, day |-> day]

\* "2019-01-01", "2019-07-14" and "2020-02-29"
CreatedDates ==
    { Str(<<"2", "0", "1", "9", "-", "0", "1", "-", "0", "1">>),
      Str(<<"2", "0", "1", "9", "-", "0", "7", "-", "1", "4">>),
      Str(<<"2", "0", "2", "0", "-", "0", "2", "-", "2", "9">>) }

Digit(ch) ==
    CASE ch = "0" -> 0 [] ch = "1" -> 1 [] ch = "2" -> 2 [] ch = "3" -> 3 [] ch = "4" -> 4
      [] ch = "5" -> 5 [] ch = "6" -> 6 [] ch = "7" -> 7 [] ch = "8" -> 8 [] ch = "9" -> 9

RECURSIVE Number(_)
Number(digits) ==
    IF digits = <<>> THEN 0
    ELSE 10 * Number(SubSeq(digits, 1, Len(digits) - 1)) + Digit(digits[Len(digits)])

\* pd.to_datetime of one cell: a "YYYY-MM-DD" string is parsed, a Timestamp stays.
ToDatetime(cell) ==
    IF cell.kind = "Timestamp" THEN cell
    ELSE Timestamp(Number(SubSeq(cell.text, 1, 4)), Number(SubSeq(cell.text, 6, 7)),
                   Number(SubSeq(cell.text, 9, 10)))

\* Days from 1970-01-01 to the Timestamp, in the Gregorian calendar.
DaysSinceEpoch(t) ==
    LET y == IF t.month <= 2 THEN t.year - 1 ELSE t.year
        era == y \div 400
        yoe == y - era * 400
        mp == IF t.month > 2 THEN t.month - 3 ELSE t.month + 9
        doy == (153 * mp + 2) \div 5 + t.day - 1
        doe == yoe * 365 + yoe \div 4 - yoe \div 100 + doy
    IN  era * 146097 + doe - 719468

\* .dt.dayofweek: Monday is 0; 1970-01-01 was a Thursday.
DayOfWeek(t) == (DaysSinceEpoch(t) + 3) % 7

\* The row of the Events table with the given key and Created Date cell.
EventRecord(key, created) ==
    [c \in {"Unique Key", "Created Date"} |-> IF c = "Unique Key" THEN key ELSE created]

\* The Events tables a caller passes: one to MaxEvents rows, the Created Date
\* column either all strings (read from the CSV file) or all Timestamps.
DatedTables ==
    UNION { { [i \in 1..n |-> EventRecord(i, d[i])] : d \in [1..n -> CreatedDates] } \cup
            { [i \in 1..n |-> EventRecord(i, ToDatetime(d[i]))] : d \in [1..n -> CreatedDates] } :
            n \in 1..MaxEvents }

\* pd.api.types.is_datetime64_any_dtype(df['Created Date'])
IsDatetime(df) == \A i \in DOMAIN df : df[i]["Created Date"].kind = "Timestamp"

\* df['Created Date'] = pd.to_datetime(df['Created Date']) when the column is not
\* datetime yet; the assignment is made on the DataFrame the caller passed.
ConvertCreatedDate(df) ==
    IF IsDatetime(df) THEN df
    ELSE [i \in DOMAIN df |-> [df[i] EXCEPT !["Created Date"] = ToDatetime(@)]]

\* The row with the column name set to value: added to it, or replaced in it.
WithColumn(row, name, value) ==
    [c \in DOMAIN row \cup {name} |-> IF c = name THEN value ELSE row[c]]

\* df['Month'] = df['Created Date'].dt.month, on df itself.
AssignMonth(df) ==
    [i \in DOMAIN df |-> WithColumn(df[i], "Month", df[i]["Created Date"].month)]

\* df['DayOfWeek'] = df['Created Date'].dt.dayofweek, on df itself.
AssignDayOfWeek(df) ==
    [i \in DOMAIN df |-> WithColumn(df[i], "DayOfWeek", DayOfWeek(df[i]["Created Date"]))]

\* Lines 338-370: the choropleth and pixel maps of aggregated_gdf.
CreateMaps ==
    /\ vis.pc = "called"
    /\ vis' = [vis EXCEPT !.pc = "maps"]
    /\ UNCHANGED <<geometries, tract_ids, statistics, tracts, raw, prep, skipped,
                   main, flt, point_map, pixel, pipeline_vars>>

\* create_heatmap reads Longitude and Latitude.
CreateHeatmap ==
    /\ vis.pc = "maps"
    /\ vis' = [vis EXCEPT !.pc = "heatmap"]
    /\ UNCHANGED <<geometries, tract_ids, statistics, tracts, raw, prep, skipped,
                   main, flt, point_map, pixel, pipeline_vars>>

\* create_time_series converts the column of the table it was given.
CreateTimeSeries ==
    /\ vis.pc = "heatmap"
    /\ vis' = [vis EXCEPT !.pc = "time_series",
                       !.complaints_df = ConvertCreatedDate(@)]
    /\ UNCHANGED <<geometries, tract_ids, statistics, tracts, raw, prep, skipped,
                   main, flt, point_map, pixel, pipeline_vars>>

\* create_monthly_pattern adds the column Month to the table it was given.
CreateMonthlyPattern ==
    /\ vis.pc = "time_series"
    /\ vis' = [vis EXCEPT !.pc = "monthly",
                       !.complaints_df = AssignMonth(ConvertCreatedDate(@))]
    /\ UNCHANGED <<geometries, tract_ids, statistics, tracts, raw, prep, skipped,
                   main, flt, point_map, pixel, pipeline_vars>>

\* create_weekly_pattern adds the column DayOfWeek to the table it was given.
CreateWeeklyPattern ==
    /\ vis.pc = "monthly"
    /\ vis' = [vis EXCEPT !.pc = "weekly",
                       !.complaints_df = AssignDayOfWeek(ConvertCreatedDate(@))]
    /\ UNCHANGED <<geometries, tract_ids, statistics, tracts, raw, prep, skipped,
                   main, flt, point_map, pixel, pipeline_vars>>

\* create_complaint_type_distribution counts the values of Complaint Type.
CreateComplaintTypeDistribution ==
    /\ vis.pc = "weekly"
    /\ vis' = [vis EXCEPT !.pc = "done"]
    /\ UNCHANGED <<geometries, tract_ids, statistics, tracts, raw, prep, skipped,
                   main, flt, point_map, pixel, pipeline_vars>>

VisInit ==
    /\ PipelineIdle
    /\ BeforeJoinIdle
    /\ MainIdle
    /\ FilterIdle
    /\ PointMapIdle
    /\ PixelIdle
    /\ \E df \in DatedTables : vis = [pc |-> "called", complaints_df |-> df, passed |-> df]

VisNext ==
    \/ CreateMaps
    \/ CreateHeatmap
    \/ CreateTimeSeries
    \/ CreateMonthlyPattern
    \/ CreateWeeklyPattern
    \/ CreateComplaintTypeDistribution

VisSpec == VisInit /\ [][VisNext]_vars

----------------------------------------------------------------------------
(* Properties *)

\* aggregate_by_census_tract has returned in the current run.
Aggregated == pc \in {"aggregated", "visualized", "analyzed", "analysis_failed"}

\* spatial_join_with_census has returned in the current run.
Joined == pc = "joined" \/ Aggregated

Containing(e) == Matches(complaints_df[e], census_gdf)

JoinedRowsOf(e) == { k \in DOMAIN joined_gdf : joined_gdf[k].index = e }

JoinedTo(geoid) == { k \in DOMAIN joined_gdf : joined_gdf[k].GEOID = geoid }

TotalCount == SumOver(Column(aggregated_gdf, "complaint_count"), DOMAIN aggregated_gdf)

\* C1: after join and aggregation, the complaint_count of all output Regions
\* summed, plus the number of unmatched Events, is the number of input Events.
Conservation ==
    Aggregated => TotalCount = Num(Len(complaints_df) - unmatched, 1)

\* C2: each Event contributes to the complaint_count of at most one Region.
Exclusivity ==
    Aggregated =>
        \A e \in DOMAIN complaints_df :
            Cardinality({ i \in DOMAIN aggregated_gdf :
                            JoinedRowsOf(e) \cap JoinedTo(aggregated_gdf[i].GEOID) # {} }) <= 1

\* C3: the aggregated output holds every Region of census_gdf exactly once, and a
\* Region that contains no Event has complaint_count 0.
EveryRegionOnce ==
    Aggregated =>
        /\ Len(aggregated_gdf) = Len(census_gdf)
        /\ \A i \in DOMAIN census_gdf :
              /\ Cardinality({ k \in DOMAIN aggregated_gdf :
                                aggregated_gdf[k].GEOID = census_gdf[i].GEOID }) = 1
              /\ (\A e \in DOMAIN complaints_df : i \notin Containing(e))
                    => \E k \in DOMAIN aggregated_gdf :
                          /\ aggregated_gdf[k].GEOID = census_gdf[i].GEOID
                          /\ aggregated_gdf[k].complaint_count = Num(0, 1)

\* Some Region contains no Event while another one does.
EveryRegionOnceWitness ==
    /\ Aggregated
    /\ \E i \in DOMAIN census_gdf : \A e \in DOMAIN complaints_df : i \notin Containing(e)
    /\ \E i \in DOMAIN census_gdf : \E e \in DOMAIN complaints_df : i \in Containing(e)

\* C4: an Event whose point lies in no Region is absent from the join result and
\* counted in no Region: every Region counts exactly the Events it contains.
UnmatchedExcluded ==
    Joined =>
        \A e \in DOMAIN complaints_df :
            Containing(e) = {} =>
                /\ JoinedRowsOf(e) = {}
                /\ Aggregated =>
                      \A i \in DOMAIN aggregated_gdf :
                          aggregated_gdf[i].complaint_count =
                              Num(Cardinality({ f \in DOMAIN complaints_df \ {e} :
                                                  i \in Containing(f) }), 1)

\* One Event lies in no Region while another lies in one, and both steps have run.
UnmatchedExcludedWitness ==
    /\ Aggregated
    /\ \E e \in DOMAIN complaints_df : Containing(e) = {}
    /\ \E e \in DOMAIN complaints_df : Containing(e) # {}

\* The spec's scenario: one Region, the unit square, of population 2000; Events at
\* (0.2,0.2), (0.5,0.5) and (2.0,2.0).
Scenario ==
    /\ census_gdf = << [GEOID |-> 1, population |-> 2000,
                        geometry |-> [clon |-> 5, clat |-> 5, size |-> 5]] >>
    /\ complaints_df = << [Longitude |-> 2, Latitude |-> 2],
                          [Longitude |-> 5, Latitude |-> 5],
                          [Longitude |-> 20, Latitude |-> 20] >>

\* C5: for a Region of population > 0, complaint_rate is complaint_count /
\* population * 1000, complaint_count being the number of Events joined to the
\* Region's id; the scenario yields count 2, rate 1.0 and one unmatched Event.
RateFormula ==
    Aggregated =>
        /\ \A i \in DOMAIN aggregated_gdf :
              aggregated_gdf[i].population > 0 =>
                  LET c == Cardinality(JoinedTo(aggregated_gdf[i].GEOID))
                      r == aggregated_gdf[i].complaint_rate
                  IN  /\ aggregated_gdf[i].complaint_count = Num(c, 1)
                      /\ r.kind = "num"
                      /\ r.num * aggregated_gdf[i].population = c * 1000 * r.den
        /\ Scenario =>
              /\ aggregated_gdf[1].complaint_count = Num(2, 1)
              /\ aggregated_gdf[1].complaint_rate = Num(1, 1)
              /\ unmatched = 1

RateFormulaWitness == Aggregated /\ Scenario

\* C6: a Region of population 0 gets the undefined sentinel (NaN) as its
\* complaint_rate, whatever its complaint_count.
ZeroPopulationUndefined ==
    Aggregated =>
        \A i \in DOMAIN aggregated_gdf :
            aggregated_gdf[i].population = 0 => IsNaN(aggregated_gdf[i].complaint_rate)

\* C7: an Event whose point lies in more than one Region yields exactly one
\* joined row.
OneRowPerEvent ==
    Joined =>
        \A e \in DOMAIN complaints_df :
            Cardinality(Containing(e)) > 1 => Cardinality(JoinedRowsOf(e)) = 1

RateMonotone ==
    Aggregated =>
        \A i, j \in DOMAIN aggregated_gdf :
            ( /\ aggregated_gdf[i].population > 0
              /\ aggregated_gdf[i].population = aggregated_gdf[j].population
              /\ LessEq(aggregated_gdf[i].complaint_count, aggregated_gdf[j].complaint_count) )
            => LessEq(aggregated_gdf[i].complaint_rate, aggregated_gdf[j].complaint_rate)

\* Two Regions of the same population > 0 with different positive counts.
RateMonotoneWitness ==
    /\ Aggregated
    /\ \E i, j \in DOMAIN aggregated_gdf :
          /\ aggregated_gdf[i].population > 0
          /\ aggregated_gdf[i].population = aggregated_gdf[j].population
          /\ Greater(aggregated_gdf[i].complaint_count, Num(0, 1))
          /\ Greater(aggregated_gdf[j].complaint_count, aggregated_gdf[i].complaint_count)

\* The Regions other than i whose rate is defined and whose cell range holds c.
DefinedCover(c, i) ==
    { j \in DOMAIN aggregated_gdf \ {i} :
        /\ ~IsNaN(aggregated_gdf[j].complaint_rate)
        /\ c \in CellRange(aggregated_gdf[j].geometry, TotalBounds(aggregated_gdf), Resolution) }

\* C10: the consumers keep an undefined complaint_rate undefined: the regression
\* target of such a Region is NaN, and a pixel that only such Regions cover is NaN.
ConsumersKeepUndefined ==
    pc \in {"analyzed", "analysis_failed"} =>
        \A i \in DOMAIN aggregated_gdf :
            IsNaN(aggregated_gdf[i].complaint_rate) =>
                /\ IsNaN(regression_y[i])
                /\ \A c \in CellRange(aggregated_gdf[i].geometry,
                                      TotalBounds(aggregated_gdf), Resolution) :
                      DefinedCover(c, i) = {} => IsNaN(grid.complaint_rate[c])

\* C11 as stated: spatial_join_with_census changes neither its inputs nor any file.
JoinHasNoSideEffect ==
    [][SpatialJoin => /\ complaints_df' = complaints_df
                      /\ census_gdf' = census_gdf
                      /\ files' = files]_vars

\* C11, amended: spatial_join_with_census leaves complaints_df and census_gdf
\* unchanged; when it returns it has written the joined rows to the joined file,
\* and it touches no other file; when it raises it has written nothing.
JoinOnlyWritesJoinedFile ==
    [][SpatialJoin => /\ complaints_df' = complaints_df
                      /\ census_gdf' = census_gdf
                      /\ files'.aggregated = files.aggregated
                      /\ files'.written \subseteq files.written \cup {"joined"}
                      /\ pc' = "joined" => /\ files'.joined = joined_gdf'
                                           /\ "joined" \in files'.written
                      /\ pc' = "failed" => files' = files]_vars

\* The join has returned rows, one Event being unmatched, and saved them.
JoinOnlyWritesJoinedFileWitness ==
    /\ pc = "joined"
    /\ unmatched > 0
    /\ joined_gdf # <<>>
    /\ files.joined = joined_gdf

\* C15: every row of the aggregated output carries the id, the boundary and every
\* attribute of its Region unchanged; aggregation adds only complaint_count and
\* complaint_rate, and leaves census_gdf as it was.
AggregationKeepsRegions ==
    [][Aggregate =>
          /\ census_gdf' = census_gdf
          /\ Len(aggregated_gdf') = Len(census_gdf)
          /\ \A i \in DOMAIN census_gdf :
                /\ DOMAIN aggregated_gdf'[i] =
                      DOMAIN census_gdf[i] \cup {"complaint_count", "complaint_rate"}
                /\ \A f \in DOMAIN census_gdf[i] :
                      aggregated_gdf'[i][f] = census_gdf[i][f]]_vars

\* Two Regions of different boundaries and populations have been aggregated.
AggregationKeepsRegionsWitness ==
    /\ Aggregated
    /\ Len(aggregated_gdf) = 2
    /\ aggregated_gdf[1].geometry # aggregated_gdf[2].geometry
    /\ aggregated_gdf[1].population # aggregated_gdf[2].population
    /\ aggregated_gdf[2].complaint_count # Num(0, 1)

\* C16: a Region without a population value does not make the aggregation raise:
\* it gets an undefined complaint_rate, and every Region with a population > 0
\* still gets the count of the Events it contains and count / population * 1000.
MissingPopulationUndefined ==
    /\ [][pc = "joined" => pc' = "aggregated"]_vars
    /\ [](/\ pc = "failed" => complaints_df = <<>>
          /\ Aggregated =>
                \A i \in DOMAIN aggregated_gdf :
                    LET c == Cardinality({ e \in DOMAIN complaints_df : i \in Containing(e) })
                        r == aggregated_gdf[i].complaint_rate
                    IN  /\ aggregated_gdf[i].complaint_count = Num(c, 1)
                        /\ aggregated_gdf[i].population = MissingPopulation => IsNaN(r)
                        /\ aggregated_gdf[i].population > 0 =>
                              /\ r.kind = "num"
                              /\ r.num * aggregated_gdf[i].population = c * 1000 * r.den)

\* A Region without population and a Region with one, both holding Events.
MissingPopulationWitness ==
    /\ Aggregated
    /\ \E i, j \in DOMAIN aggregated_gdf :
          /\ aggregated_gdf[i].population = MissingPopulation
          /\ aggregated_gdf[i].complaint_count # Num(0, 1)
          /\ aggregated_gdf[j].population > 0
          /\ aggregated_gdf[j].complaint_count # Num(0, 1)

UniqueGEOID ==
    /\ \A i, j \in DOMAIN tract_ids : tract_ids[i] = tract_ids[j] => i = j
    /\ \A i, j \in DOMAIN tracts : tracts[i].GEOID = tracts[j].GEOID => i = j

UniqueGEOIDWitness ==
    /\ Len(tracts) = n_tracts
    /\ \A k \in 1..n_tracts : tracts[k].GEOID = TractId(k)

\* Two squares share an interior point: their open intervals meet on both axes.
Overlap(a, b) ==
    /\ Max({a.clon - a.size, b.clon - b.size}) < Min({a.clon + a.size, b.clon + b.size})
    /\ Max({a.clat - a.size, b.clat - b.size}) < Min({a.clat + a.size, b.clat + b.size})

\* C13 as stated: no two generated Regions overlap, that is, no point is contained
\* in the boundaries of two distinct generated Regions.
NoOverlap ==
    \A i, j \in DOMAIN geometries : i < j => ~Overlap(geometries[i], geometries[j])

InUnitInterval(p) == LessEq(Num(0, 1), p) /\ LessEq(p, Num(1, 1))

\* C14: every generated Region has an integer population >= 0 and each of its
\* four pct_ columns within [0,1]; the population is never 0, so the complaint
\* rate of the Region is a finite number whatever its complaint count.
GeneratedStatisticsInRange ==
    \A k \in DOMAIN statistics :
        /\ statistics[k].population \in Nat
        /\ statistics[k].population # 0
        /\ InUnitInterval(statistics[k].pct_college)
        /\ InUnitInterval(statistics[k].pct_poverty)
        /\ InUnitInterval(statistics[k].pct_owner_occupied)
        /\ InUnitInterval(statistics[k].pct_minority)
        /\ \A c \in 0..MaxEvents :
               ComplaintRate(Num(c, 1), statistics[k].population).kind = "num"

GeneratedStatisticsWitness ==
    /\ Len(statistics) = MaxTracts
    /\ statistics[1].population = 1000
    /\ statistics[1].pct_poverty = Num(5, 100)
    /\ statistics[MaxTracts].population = 10000
    /\ statistics[MaxTracts].pct_college = Num(90, 100)

\* The exceptions a failed read of a cache file raises.
ReadFailures == {"ParserError", "PermissionError", "DataSourceError"}

\* C18 as stated: a failure reading a cached input file is fatal to the run and
\* reaches the invoker as an error that carries the file path and the cause; the
\* run does not end with the status of a success.
ReadFailureSurfaced ==
    prep.error.cause \in ReadFailures =>
        /\ prep.pc \in {"raised", "exited"}
        /\ prep.error.path
        /\ prep.pc = "exited" => prep.exit # 0

\* C19 as stated: each dataset is generated only when its cache file is absent,
\* and is then written to that file; an existing cache file is loaded, and is
\* neither regenerated nor rewritten by any step of any run.
CacheLifecycle ==
    [][/\ PrepareEvents =>
            IF Exists(raw.events)
            THEN raw'.events = raw.events /\ prep'.complaints_df # "generated"
            ELSE raw'.events = Written(raw.events) /\ prep'.complaints_df = "generated"
       /\ PrepareCensus =>
            IF Exists(raw.census)
            THEN raw'.census = raw.census /\ prep'.census_gdf # "generated"
            ELSE raw'.census = Written(raw.census) /\ prep'.census_gdf = "generated"
       /\ Exists(raw.events) => raw'.events = raw.events
       /\ Exists(raw.census) => raw'.census = raw.census]_vars

\* The AggregatedRegions derived from the Events and Regions of the current run.
Derived ==
    AggregateByCensusTract(DropNaGEOID(SJoin(complaints_df, census_gdf)), census_gdf)

\* visualization, or the analysis after it, has consumed in the current run.
Consumed == pc \in {"visualized", "analyzed", "analysis_failed"}

\* C20 as stated: in any run, the AggregatedRegions the consumers use are the
\* ones derived from that run's Events and Regions, never a file that an earlier
\* run saved.
ConsumersUseThisRunsData ==
    Consumed => files.produced = run /\ aggregated_gdf = Derived

\* C20, amended: a run that performs data processing derives the
\* AggregatedRegions from its own Events and Regions, saves them, and its
\* consumers use them; a run that skips data processing consumes the file the
\* last processing run saved; the analysis reads the saved file in both.
ConsumersUseLastProcessed ==
    /\ (Aggregated /\ run \notin skipped) =>
            /\ files.produced = run
            /\ aggregated_gdf = Derived
            /\ files.aggregated = ToGeoJSON(aggregated_gdf)
    /\ (Aggregated /\ run \in skipped) =>
            /\ files.produced < run
            /\ files.produced \notin skipped
            /\ aggregated_gdf = files.aggregated
    /\ Consumed =>
            grid = [complaint_count |-> PixelMap(aggregated_gdf, "complaint_count", Resolution),
                    complaint_rate  |-> PixelMap(aggregated_gdf, "complaint_rate", Resolution)]
    /\ pc \in {"analyzed", "analysis_failed"} =>
            regression_y = RegressionTarget(files.aggregated)

\* The consumers of a run without data processing have used a saved file that
\* is not what the run's Events and Regions derive to.
ConsumersUseLastProcessedWitness ==
    /\ run \in skipped
    /\ pc \in {"analyzed", "analysis_failed"}
    /\ files.produced = 1
    /\ aggregated_gdf # Derived

\* The messages of main.log that mark a step, in the order logged.
StepsLogged ==
    SelectSeq(main.log, LAMBDA x : x \in {"Step 1: Processing data",
                                          "Step 2: Creating visualizations",
                                          "Step 3: Running socioeconomic analysis",
                                          "Analysis pipeline completed"})

NoSkipFlag ==
    /\ ~main.args.skip_processing
    /\ ~main.args.skip_visualization
    /\ ~main.args.skip_analysis

\* C21 as stated: a run of main with no skip flag, in which no data, plotting or
\* statistics operation fails, has executed data processing, visualization and
\* the socioeconomic analysis in that order when it returns, and has then
\* logged 'Analysis pipeline completed'.
NoSkipRunCompletes ==
    (main.pc = "returned" /\ NoSkipFlag) =>
        StepsLogged = <<"Step 1: Processing data",
                        "Step 2: Creating visualizations",
                        "Step 3: Running socioeconomic analysis",
                        "Analysis pipeline completed">>

InLog(message) == \E k \in DOMAIN main.log : main.log[k] = message

\* C22 as stated: run with --skip-processing while the processed files exist,
\* main does no data processing, loads the existing data, and goes on to
\* visualization and to the socioeconomic analysis (where not skipped).
SkipProcessingLoads ==
    (/\ main.pc = "returned"
     /\ main.args.skip_processing
     /\ files.written = {"joined", "aggregated"}) =>
        /\ ~InLog("Step 1: Processing data")
        /\ InLog("Processed data loaded successfully")
        /\ ~main.args.skip_visualization => InLog("Step 2: Creating visualizations")
        /\ ~main.args.skip_analysis => InLog("Step 3: Running socioeconomic analysis")

\* C23: when step 1 raises, the error is logged and main returns at once: no
\* visualization, no analysis, and 'Analysis pipeline completed' is not logged.
Step1FailureReturns ==
    /\ [][(Step1 /\ main'.error # "none") =>
            /\ main'.pc = "returned"
            /\ Len(main'.log) = Len(main.log) + 2
            /\ main'.log[Len(main'.log)] \in {"Error in data processing",
                                               "Error loading processed data"}]_vars
    /\ [](main.error # "none" =>
            /\ main.pc = "returned"
            /\ ~InLog("Step 2: Creating visualizations")
            /\ ~InLog("Step 3: Running socioeconomic analysis")
            /\ ~InLog("Analysis pipeline completed"))

\* Step 1 has raised in a run that was to process, visualize and analyse.
Step1FailureReturnsWitness ==
    /\ main.pc = "returned"
    /\ main.error = "AttributeError"
    /\ NoSkipFlag
    /\ main.log[Len(main.log)] = "Error in data processing"

\* The string holds the word as a substring.
HasSubstring(str, word) ==
    \E i \in 1..Len(str) : i + Len(word) - 1 <= Len(str) /\ SubSeq(str, i, i + Len(word) - 1) = word

\* The record has a Complaint Type that, lower-cased, holds a keyword.
FloodRelated(row) ==
    /\ row.complaint_type # MissingType
    /\ \E k \in DOMAIN flood_keywords :
          HasSubstring(Lower(row.complaint_type), flood_keywords[k])

\* C25: the filter returns exactly the input records whose Complaint Type,
\* lower-cased, contains a keyword, in input order; records with a missing
\* Complaint Type are excluded; filtering the result again returns it unchanged.
FilterExact ==
    /\ flt.calls >= 1 =>
          LET out == flt.flood_complaints
          IN  /\ \A k \in DOMAIN out : out[k] = flt.df[out[k].unique_key]
              /\ \A k \in DOMAIN out : FloodRelated(out[k])
              /\ \A i \in DOMAIN flt.df :
                    FloodRelated(flt.df[i]) => \E k \in DOMAIN out : out[k] = flt.df[i]
              /\ \A j, k \in DOMAIN out : j < k => out[j].unique_key < out[k].unique_key
              /\ \A k \in DOMAIN out : out[k].complaint_type # MissingType
    /\ flt.calls = 2 => flt.again = flt.flood_complaints

\* Kept: a keyword in capitals and one inside a word; dropped: a missing type.
FilterExactWitness ==
    /\ flt.calls = 2
    /\ Len(flt.df) = 3
    /\ flt.df[1].complaint_type = MissingType
    /\ Len(flt.flood_complaints) = 2
    /\ Lower(flt.flood_complaints[1].complaint_type) = Lower(<<"W", "A", "T", "E", "R", " ", "L", "E", "A", "K">>)
    /\ flt.flood_complaints[2].complaint_type = <<"R", "a", "i", "n", "w", "a", "t", "e", "r">>

\* create_sample_311_data has been called: the Events cache was absent.
Called311 == prep.complaints_df = "generated" \/ prep.error.cause = "ValueError"

\* C26 as stated: create_sample_311_data returns a table of exactly n_complaints
\* records, every column holding one value per record, the Unique Key values
\* being the integers 1..n_complaints.
Sample311Complete ==
    Called311 =>
        /\ prep.complaints_df = "generated"
        /\ DataFrame(Sample311Columns).raised = "none"
        /\ DataFrame(Sample311Columns).rows = n_complaints
        /\ DataFrame(Sample311Columns).columns = DOMAIN Sample311Columns
        /\ Sample311Columns.unique_key = List(n_complaints)

\* C27: a point-map builder places min(len(df), max_points) points when
\* max_points is given and len(df) points when it is None, and every placed
\* point is a distinct row of the input.
PointsPlaced ==
    point_map.pc \in {"saved", "raised"} =>
        /\ Len(point_map.placed) =
              IF point_map.max_points.given
              THEN Min({Len(point_map.df), point_map.max_points.n})
              ELSE Len(point_map.df)
        /\ \A k \in DOMAIN point_map.placed :
              LET point == point_map.placed[k]
              IN  /\ point.index \in DOMAIN point_map.df
                  /\ point.Latitude = point_map.df[point.index].Latitude
                  /\ point.Longitude = point_map.df[point.index].Longitude
        /\ \A j, k \in DOMAIN point_map.placed :
              point_map.placed[j].index = point_map.placed[k].index => j = k

\* A map limited to fewer points than the table has rows, the rows placed not
\* being the first ones of the table.
PointsPlacedWitness ==
    /\ point_map.pc = "saved"
    /\ point_map.max_points.given
    /\ Len(point_map.df) = 3
    /\ Len(point_map.placed) = 2
    /\ point_map.placed[1].index = 3

\* The rows of gdf whose bounding-box cell range covers the cell c.
Covering(gdf, c) ==
    { i \in DOMAIN gdf : /\ gdf[i].geometry # None
                         /\ c \in CellRange(gdf[i].geometry, TotalBounds(gdf), Resolution) }

\* The loop of create_simplified_pixel_map is over.
AllRegionsProcessed == pixel.pc \in {"loop", "done"} /\ pixel.n = Len(pixel.gdf)

JoinNeverRaises ==
    [][pc = "start" => /\ pc' = "joined"
                       /\ complaints_df = <<>> => /\ unmatched' = 0
                                                  /\ joined_gdf' = <<>>]_vars

\* C30: visualize_data leaves the caller's complaints_df unchanged, same columns
\* and same values: at every position the table is the one that was passed in.
VisualizeLeavesEvents == vis.complaints_df = vis.passed

====
